---- MODULE Spec2Model ----
(***************************************************************************)
(* Model of backend/server.py: the request handlers of the real-estate     *)
(* listing API over a MongoDB database.                                    *)
(*                                                                         *)
(* A collection is the sequence of its documents in insertion order.  A    *)
(* handler is a coroutine: every "await db.<collection>.<operation>" is    *)
(* one atomic store operation, and other requests may run between two      *)
(* awaits of the same handler.  One action of the model is one store       *)
(* operation of a handler together with the handler's own code that runs   *)
(* when the operation returns, up to the next await (or the response).     *)
(* An unhandled exception (pymongo's DuplicateKeyError, a TypeError on a   *)
(* None document) is answered by the framework with status 500.            *)
(***************************************************************************)
EXTENDS Integers, Sequences, FiniteSets, TLC

VARIABLES
    users, properties, listings, verification_documents, saved_listings,
    property_comparisons, reviews, messages, notifications, audit_logs,
    req,        \* the requests: handler, position, payload, locals, response status
    clock,      \* the last value datetime.now(timezone.utc) returned
    sequential, \* TRUE: the client awaits each response before the next request
    seen        \* history: per get_analytics request, the counts of the store
                \* states that existed during the call

store == <<users, properties, listings, verification_documents, saved_listings,
           property_comparisons, reviews, messages, notifications, audit_logs>>

vars == <<users, properties, listings, verification_documents, saved_listings,
          property_comparisons, reviews, messages, notifications, audit_logs,
          req, clock, sequential, seen>>

(***************************************************************************)
(* Bounds of the model.                                                    *)
(***************************************************************************)
MaxReq == 2
MaxReqAll == 1
MaxClock == 1

(***************************************************************************)
(* Input values.                                                           *)
(***************************************************************************)
UIDs == {"u1", "u2"}
PIDs == {"p1", "p2"}
LIDs == {"l1", "l2"}
DIDs == {"d1", "d2"}
SIDs == {"s1", "s2"}
CIDs == {"c1"}
RIDs == {"r1", "r2"}
MIDs == {"m1", "m2"}
NIDs == {"n1"}
AIDs == {"a1"}
Names == {"Ann", "Bob"}
Prices == {1, 2, 3}
DocTypes == {"identity_proof", "property_ownership"}
Reasons == {"blurry"}

\* Optional[T]: None is the empty sequence, a value v is <<v>>.
None == <<>>
Some(v) == <<v>>
Opt(S) == {None} \cup {Some(v) : v \in S}

\* class VerificationStatus, class ListingStatus, class MessageStatus
VerificationStatus == {"pending", "verified", "rejected", "not_submitted"}
ListingStatus == {"active", "hidden", "pending", "verified", "rejected", "expired"}
MessageStatus == {"unread", "read"}

(***************************************************************************)
(* The store operations of a collection (motor / MongoDB).  A filter is a  *)
(* record of the field values a document must have; an update is $set,    *)
(* $inc or $push with a record of fields.                                  *)
(***************************************************************************)
Min(S) == CHOOSE x \in S : \A y \in S : x <= y

Matches(d, filter) == \A k \in DOMAIN filter : d[k] = filter[k]

\* The position of the first document that matches, 0 when there is none.
FirstIdx(coll, filter) ==
    LET S == {i \in DOMAIN coll : Matches(coll[i], filter)}
    IN  IF S = {} THEN 0 ELSE Min(S)

\* find_one(filter): None, or the first matching document.
find_one(coll, filter) ==
    LET i == FirstIdx(coll, filter)
    IN  IF i = 0 THEN None ELSE Some(coll[i])

Set(fields) == [op |-> "$set", fields |-> fields]
\* A variant of $inc that overwrites the field with the increment.
IncOverwrites(fields) == [op |-> "$set", fields |-> fields]
Inc(fields) == [op |-> "$inc", fields |-> fields]
Push(fields) == [op |-> "$push", fields |-> fields]

\* The document after an update.
Apply(d, update) ==
    [k \in DOMAIN d |->
        IF k \notin DOMAIN update.fields THEN d[k]
        ELSE CASE update.op = "$set" -> update.fields[k]
               [] update.op = "$inc" -> d[k] + update.fields[k]
               [] update.op = "$push" -> Append(d[k], update.fields[k])]

\* update_one(filter, update): the first matching document is updated;
\* modified_count is 1 only when that changed the document.
update_one(coll, filter, update) ==
    LET i == FirstIdx(coll, filter)
    IN  IF i = 0 THEN coll ELSE [coll EXCEPT ![i] = Apply(coll[i], update)]

modified_count(coll, filter, update) ==
    LET i == FirstIdx(coll, filter)
    IN  IF i # 0 /\ Apply(coll[i], update) # coll[i] THEN 1 ELSE 0

\* delete_one(filter): the first matching document is removed.
delete_one(coll, filter) ==
    LET i == FirstIdx(coll, filter)
    IN  IF i = 0 THEN coll
        ELSE [j \in 1 .. (Len(coll) - 1) |-> IF j < i THEN coll[j] ELSE coll[j + 1]]

\* A variant that reports a deletion whatever the filter matched.
deleted_count_one(coll, filter) == 1

deleted_count(coll, filter) ==
    IF FirstIdx(coll, filter) = 0 THEN 0 ELSE 1

\* count_documents(filter)
count_documents(coll, filter) ==
    Cardinality({i \in DOMAIN coll : Matches(coll[i], filter)})

\* insert_one raises DuplicateKeyError when the document repeats the key of a
\* unique index (a set of fields) of the collection.
DuplicateKey(coll, doc, indexes) ==
    \E ix \in indexes : \E i \in DOMAIN coll : \A k \in ix : coll[i][k] = doc[k]

\* startup_db_indexes: the indexes created with unique=True.
Unique_users == {{"firebase_uid"}}
Unique_properties == {{"property_id"}}
Unique_listings == {{"listing_id"}}
Unique_verification_documents == {{"document_id"}}
Unique_saved_listings == {{"saved_id"}, {"user_firebase_uid", "listing_id"}}
Unique_property_comparisons == {{"comparison_id"}}
Unique_reviews == {{"review_id"}}
Unique_messages == {{"message_id"}}
Unique_notifications == {{"notification_id"}}
Unique_audit_logs == {{"log_id"}}

\* update_data = {k: v for k, v in update.model_dump().items() if v is not None}
Supplied(u) == [k \in {f \in DOMAIN u : u[f] # None} |-> u[k][1]]

\* update_data[k] = v
With(fields, k, v) ==
    [f \in DOMAIN fields \cup {k} |-> IF f = k THEN v ELSE fields[f]]

(***************************************************************************)
(* Requests.                                                               *)
(***************************************************************************)
\* The request slots a specification may use; Reqs are those of this behaviour.
Slots == 1 .. (MaxReq + MaxReqAll)
Reqs == DOMAIN req
NoArg == [nil |-> TRUE]
Idle == [op |-> "none", pc |-> "idle", arg |-> NoArg, loc |-> None, status |-> 0]

\* The values datetime.now(timezone.utc) can return next.
Nows == {t \in {clock, clock + 1} : t <= MaxClock}

InFlight(q) == req[q].pc \notin {"idle", "done"}

\* Request r arrives: requests are numbered in their order of arrival, and a
\* sequential client has no other request in flight.
Arrive(r) ==
    /\ r \in Reqs
    /\ req[r].pc = "idle"
    /\ IF r = 1 THEN TRUE ELSE req[r - 1].pc # "idle"
    /\ sequential => \A q \in Reqs \ {r} : ~InFlight(q)

At(r, op, pc) == r \in Reqs /\ req[r].op = op /\ req[r].pc = pc

\* The handler goes on to its next await.
Goto(r, op, pc, arg, loc) ==
    req' = [req EXCEPT ![r] = [op |-> op, pc |-> pc, arg |-> arg, loc |-> loc, status |-> 0]]

\* The handler returns (200) or raises (HTTPException 400/404, unhandled 500).
Respond(r, op, arg, status) ==
    req' = [req EXCEPT ![r] = [op |-> op, pc |-> "done", arg |-> arg, loc |-> None,
                               status |-> status]]

\* The five counts of get_analytics in the current state of the store.
Counts ==
    <<count_documents(users, <<>>), count_documents(properties, <<>>),
      count_documents(listings, <<>>),
      count_documents(listings, [status |-> "active"]),
      count_documents(verification_documents, [status |-> "pending"])>>

\* The history kept for the get_analytics requests in flight: the counts of
\* the state each step leads to.
Observe ==
    seen' = [q \in DOMAIN seen |->
                IF q \in DOMAIN req' /\ req'[q].op = "get_analytics" /\ req[q].pc # "done"
                THEN seen[q] \cup {Counts'}
                ELSE seen[q]]

\* What an action leaves alone: every collection but the named one.
Only_users ==
    /\ UNCHANGED <<properties, listings, verification_documents, saved_listings,
                property_comparisons, reviews, messages, notifications, audit_logs,
                sequential>>
    /\ Observe
Only_properties ==
    /\ UNCHANGED <<users, listings, verification_documents, saved_listings,
                property_comparisons, reviews, messages, notifications, audit_logs,
                sequential>>
    /\ Observe
Only_listings ==
    /\ UNCHANGED <<users, properties, verification_documents, saved_listings,
                property_comparisons, reviews, messages, notifications, audit_logs,
                sequential>>
    /\ Observe
Only_verification_documents ==
    /\ UNCHANGED <<users, properties, listings, saved_listings,
                property_comparisons, reviews, messages, notifications, audit_logs,
                sequential>>
    /\ Observe
Only_saved_listings ==
    /\ UNCHANGED <<users, properties, listings, verification_documents,
                property_comparisons, reviews, messages, notifications, audit_logs,
                sequential>>
    /\ Observe
Only_property_comparisons ==
    /\ UNCHANGED <<users, properties, listings, verification_documents, saved_listings,
                reviews, messages, notifications, audit_logs, sequential>>
    /\ Observe
Only_reviews ==
    /\ UNCHANGED <<users, properties, listings, verification_documents, saved_listings,
                property_comparisons, messages, notifications, audit_logs, sequential>>
    /\ Observe
Only_messages ==
    /\ UNCHANGED <<users, properties, listings, verification_documents, saved_listings,
                property_comparisons, reviews, notifications, audit_logs, sequential>>
    /\ Observe
Only_notifications ==
    /\ UNCHANGED <<users, properties, listings, verification_documents, saved_listings,
                property_comparisons, reviews, messages, audit_logs, sequential>>
    /\ Observe
Only_audit_logs ==
    /\ UNCHANGED <<users, properties, listings, verification_documents, saved_listings,
                property_comparisons, reviews, messages, notifications, sequential>>
    /\ Observe
ReadOnly == UNCHANGED <<store, sequential>> /\ Observe

(***************************************************************************)
(* User routes.                                                            *)
(***************************************************************************)
\* A variant that stores a new user as pending.
UserDocPending(a, now) ==
    [firebase_uid |-> a.firebase_uid, name |-> a.name, role |-> a.role,
     verification_status |-> "pending", two_factor_enabled |-> FALSE,
     is_suspended |-> FALSE, is_banned |-> FALSE,
     created_at |-> now, updated_at |-> now]

\* User(**user.model_dump()): the defaults of class User.
UserDoc(a, now) ==
    [firebase_uid |-> a.firebase_uid, name |-> a.name, role |-> a.role,
     verification_status |-> "not_submitted", two_factor_enabled |-> FALSE,
     is_suspended |-> FALSE, is_banned |-> FALSE,
     created_at |-> now, updated_at |-> now]

UserCreate == [firebase_uid : UIDs, name : Names, role : {"lister"}]
UserUpdate == [name : Opt(Names), two_factor_enabled : Opt(BOOLEAN)]

\* create_user: the pre-check, then the construction of the document.
create_user_find(r) ==
    /\ Arrive(r)
    /\ \E a \in UserCreate :
         LET existing_user == find_one(users, [firebase_uid |-> a.firebase_uid])
         IN  IF existing_user # None
             THEN Respond(r, "create_user", a, 400) /\ UNCHANGED clock
             ELSE \E now \in Nows :
                    /\ Goto(r, "create_user", "insert", a, Some(UserDoc(a, now)))
                    /\ clock' = now
    /\ ReadOnly

create_user_insert(r) ==
    /\ At(r, "create_user", "insert")
    /\ LET doc == req[r].loc[1]
       IN  IF DuplicateKey(users, doc, Unique_users)
           THEN Respond(r, "create_user", req[r].arg, 500) /\ UNCHANGED users
           ELSE users' = Append(users, doc) /\ Respond(r, "create_user", req[r].arg, 200)
    /\ Only_users /\ UNCHANGED clock

get_user(r) ==
    /\ Arrive(r)
    /\ \E uid \in UIDs :
         LET user == find_one(users, [firebase_uid |-> uid])
         IN  Respond(r, "get_user", [firebase_uid |-> uid],
                     IF user = None THEN 404 ELSE 200)
    /\ ReadOnly /\ UNCHANGED clock

\* update_data of update_user: the supplied fields and updated_at.
\* A variant that also switches two-factor authentication off.
UserUpdateDataResets(u, now) ==
    With(With(Supplied(u), "two_factor_enabled", FALSE), "updated_at", now)

UserUpdateData(u, now) == With(Supplied(u), "updated_at", now)

update_user_find(r) ==
    /\ Arrive(r)
    /\ \E uid \in UIDs, u \in UserUpdate :
         LET a == [firebase_uid |-> uid, update |-> u]
             user == find_one(users, [firebase_uid |-> uid])
         IN  IF user = None
             THEN Respond(r, "update_user", a, 404) /\ UNCHANGED clock
             ELSE \E now \in Nows :
                    /\ Goto(r, "update_user", "set", a, Some(UserUpdateData(u, now)))
                    /\ clock' = now
    /\ ReadOnly

update_user_set(r) ==
    /\ At(r, "update_user", "set")
    /\ LET a == req[r].arg
       IN  /\ users' = update_one(users, [firebase_uid |-> a.firebase_uid],
                                  Set(req[r].loc[1]))
           /\ Goto(r, "update_user", "read", a, None)
    /\ Only_users /\ UNCHANGED clock

\* updated_user['created_at'] raises TypeError when the document is gone.
update_user_read(r) ==
    /\ At(r, "update_user", "read")
    /\ LET a == req[r].arg
           updated_user == find_one(users, [firebase_uid |-> a.firebase_uid])
       IN  Respond(r, "update_user", a, IF updated_user = None THEN 500 ELSE 200)
    /\ ReadOnly /\ UNCHANGED clock

suspend_user(r) ==
    /\ Arrive(r)
    /\ \E uid \in UIDs, is_suspended \in BOOLEAN :
         /\ users' = update_one(users, [firebase_uid |-> uid],
                                Set([is_suspended |-> is_suspended]))
         /\ Respond(r, "suspend_user",
                    [firebase_uid |-> uid, is_suspended |-> is_suspended],
                    IF modified_count(users, [firebase_uid |-> uid],
                           Set([is_suspended |-> is_suspended])) = 0
                    THEN 404 ELSE 200)
    /\ Only_users /\ UNCHANGED clock

ban_user(r) ==
    /\ Arrive(r)
    /\ \E uid \in UIDs, is_banned \in BOOLEAN :
         /\ users' = update_one(users, [firebase_uid |-> uid],
                                Set([is_banned |-> is_banned]))
         /\ Respond(r, "ban_user", [firebase_uid |-> uid, is_banned |-> is_banned],
                    IF modified_count(users, [firebase_uid |-> uid],
                           Set([is_banned |-> is_banned])) = 0
                    THEN 404 ELSE 200)
    /\ Only_users /\ UNCHANGED clock

(***************************************************************************)
(* Property routes.                                                        *)
(***************************************************************************)
\* class PriceHistory
PriceHistory(price, now, reason) ==
    [price |-> price, changed_at |-> now, reason |-> reason]

\* create_property: Property(**property.model_dump(), price_history=...)
PropertyDoc(a, now) ==
    [property_id |-> a.property_id, title |-> a.title,
     current_price |-> a.current_price,
     price_history |-> <<PriceHistory(a.current_price, now, "Initial listing")>>,
     created_at |-> now, updated_at |-> now]

PropertyCreate == [property_id : PIDs, title : {"Flat"}, current_price : Prices]
PropertyUpdate == [title : Opt({"Loft"}), current_price : Opt(Prices)]

create_property_find(r) ==
    /\ Arrive(r)
    /\ \E a \in PropertyCreate :
         LET existing == find_one(properties, [property_id |-> a.property_id])
         IN  IF existing # None
             THEN Respond(r, "create_property", a, 400) /\ UNCHANGED clock
             ELSE \E now \in Nows :
                    /\ Goto(r, "create_property", "insert", a, Some(PropertyDoc(a, now)))
                    /\ clock' = now
    /\ ReadOnly

create_property_insert(r) ==
    /\ At(r, "create_property", "insert")
    /\ LET doc == req[r].loc[1]
       IN  IF DuplicateKey(properties, doc, Unique_properties)
           THEN Respond(r, "create_property", req[r].arg, 500) /\ UNCHANGED properties
           ELSE /\ properties' = Append(properties, doc)
                /\ Respond(r, "create_property", req[r].arg, 200)
    /\ Only_properties /\ UNCHANGED clock

get_property(r) ==
    /\ Arrive(r)
    /\ \E pid \in PIDs :
         LET property == find_one(properties, [property_id |-> pid])
         IN  Respond(r, "get_property", [property_id |-> pid],
                     IF property = None THEN 404 ELSE 200)
    /\ ReadOnly /\ UNCHANGED clock

\* update_property, "Handle price change": the condition of the $push.
\* A variant that records every supplied current_price.
PriceSupplied(update_data, property) ==
    "current_price" \in DOMAIN update_data

PriceChanged(update_data, property) ==
    /\ "current_price" \in DOMAIN update_data
    /\ update_data.current_price # property.current_price

update_property_find(r) ==
    /\ Arrive(r)
    /\ \E pid \in PIDs, u \in PropertyUpdate :
         LET a == [property_id |-> pid, update |-> u]
             property == find_one(properties, [property_id |-> pid])
         IN  IF property = None
             THEN Respond(r, "update_property", a, 404) /\ UNCHANGED clock
             ELSE \E now \in Nows :
                    /\ IF PriceChanged(Supplied(u), property[1])
                       THEN Goto(r, "update_property", "push", a,
                                 Some(PriceHistory(u.current_price[1], now, "Price updated")))
                       ELSE Goto(r, "update_property", "set", a,
                                 Some(With(Supplied(u), "updated_at", now)))
                    /\ clock' = now
    /\ ReadOnly

update_property_push(r) ==
    /\ At(r, "update_property", "push")
    /\ LET a == req[r].arg
       IN  /\ properties' = update_one(properties,
                                       [property_id |-> a.property_id],
                                       Push([price_history |-> req[r].loc[1]]))
           /\ \E now \in Nows :
                /\ Goto(r, "update_property", "set", a,
                        Some(With(Supplied(a.update), "updated_at", now)))
                /\ clock' = now
    /\ Only_properties

update_property_set(r) ==
    /\ At(r, "update_property", "set")
    /\ LET a == req[r].arg
       IN  /\ properties' = update_one(properties,
                                       [property_id |-> a.property_id],
                                       Set(req[r].loc[1]))
           /\ Goto(r, "update_property", "read", a, None)
    /\ Only_properties /\ UNCHANGED clock

\* updated_property['created_at'] raises TypeError when the document is gone.
update_property_read(r) ==
    /\ At(r, "update_property", "read")
    /\ LET a == req[r].arg
           updated_property == find_one(properties, [property_id |-> a.property_id])
       IN  Respond(r, "update_property", a, IF updated_property = None THEN 500 ELSE 200)
    /\ ReadOnly /\ UNCHANGED clock

delete_property(r) ==
    /\ Arrive(r)
    /\ \E pid \in PIDs :
         /\ properties' = delete_one(properties, [property_id |-> pid])
         /\ Respond(r, "delete_property", [property_id |-> pid],
                    IF deleted_count(properties, [property_id |-> pid]) = 0
                    THEN 404 ELSE 200)
    /\ Only_properties /\ UNCHANGED clock

(***************************************************************************)
(* Listing routes.                                                         *)
(***************************************************************************)
\* Listing(**listing.model_dump()): the defaults of class Listing.
\* A variant that stores a new listing as active.
ListingDocActive(a, now) ==
    [listing_id |-> a.listing_id, property_id |-> a.property_id,
     lister_firebase_uid |-> a.lister_firebase_uid,
     status |-> "active", views_count |-> 0,
     verified_at |-> None, verified_by_admin_uid |-> None,
     rejection_reason |-> None, expires_at |-> a.expires_at,
     created_at |-> now, updated_at |-> now]

ListingDoc(a, now) ==
    [listing_id |-> a.listing_id, property_id |-> a.property_id,
     lister_firebase_uid |-> a.lister_firebase_uid,
     status |-> "pending", views_count |-> 0,
     verified_at |-> None, verified_by_admin_uid |-> None,
     rejection_reason |-> None, expires_at |-> a.expires_at,
     created_at |-> now, updated_at |-> now]

ListingCreate ==
    [listing_id : LIDs, property_id : PIDs, lister_firebase_uid : UIDs,
     expires_at : {None}]
ListingUpdate ==
    [status : Opt({"active", "verified", "rejected"}), rejection_reason : Opt(Reasons),
     expires_at : {None}]

create_listing_find_property(r) ==
    /\ Arrive(r)
    /\ \E a \in ListingCreate :
         LET property == find_one(properties, [property_id |-> a.property_id])
         IN  IF property = None
             THEN Respond(r, "create_listing", a, 404)
             ELSE Goto(r, "create_listing", "find_user", a, None)
    /\ ReadOnly /\ UNCHANGED clock

create_listing_find_user(r) ==
    /\ At(r, "create_listing", "find_user")
    /\ LET a == req[r].arg
           user == find_one(users, [firebase_uid |-> a.lister_firebase_uid])
       IN  IF user = None
           THEN Respond(r, "create_listing", a, 404) /\ UNCHANGED clock
           ELSE \E now \in Nows :
                  /\ Goto(r, "create_listing", "insert", a, Some(ListingDoc(a, now)))
                  /\ clock' = now
    /\ ReadOnly

create_listing_insert(r) ==
    /\ At(r, "create_listing", "insert")
    /\ LET doc == req[r].loc[1]
       IN  IF DuplicateKey(listings, doc, Unique_listings)
           THEN Respond(r, "create_listing", req[r].arg, 500) /\ UNCHANGED listings
           ELSE /\ listings' = Append(listings, doc)
                /\ Respond(r, "create_listing", req[r].arg, 200)
    /\ Only_listings /\ UNCHANGED clock

get_listing_find(r) ==
    /\ Arrive(r)
    /\ \E lid \in LIDs :
         LET a == [listing_id |-> lid]
             listing == find_one(listings, [listing_id |-> lid])
         IN  IF listing = None
             THEN Respond(r, "get_listing", a, 404)
             ELSE Goto(r, "get_listing", "inc", a, listing)
    /\ ReadOnly /\ UNCHANGED clock

get_listing_inc(r) ==
    /\ At(r, "get_listing", "inc")
    /\ LET a == req[r].arg
       IN  /\ listings' = update_one(listings, [listing_id |-> a.listing_id],
                                     Inc([views_count |-> 1]))
           /\ Respond(r, "get_listing", a, 200)
    /\ Only_listings /\ UNCHANGED clock

\* A document field of type Optional[T] holds None or Some(value).
Stored(fields, optional) ==
    [k \in DOMAIN fields |-> IF k \in optional THEN Some(fields[k]) ELSE fields[k]]

\* update_data of update_listing, with "Handle verification".
ListingUpdateData(u, now) ==
    LET update_data ==
            With(Stored(Supplied(u), {"rejection_reason", "expires_at"}), "updated_at", now)
    IN  IF "status" \in DOMAIN update_data /\ update_data.status = "verified"
        THEN With(update_data, "verified_at", Some(now))
        ELSE update_data

update_listing_find(r) ==
    /\ Arrive(r)
    /\ \E lid \in LIDs, u \in ListingUpdate :
         LET a == [listing_id |-> lid, update |-> u]
             listing == find_one(listings, [listing_id |-> lid])
         IN  IF listing = None
             THEN Respond(r, "update_listing", a, 404) /\ UNCHANGED clock
             ELSE \E now \in Nows :
                    /\ Goto(r, "update_listing", "set", a, Some(ListingUpdateData(u, now)))
                    /\ clock' = now
    /\ ReadOnly

update_listing_set(r) ==
    /\ At(r, "update_listing", "set")
    /\ LET a == req[r].arg
       IN  /\ listings' = update_one(listings, [listing_id |-> a.listing_id],
                                     Set(req[r].loc[1]))
           /\ Goto(r, "update_listing", "read", a, None)
    /\ Only_listings /\ UNCHANGED clock

update_listing_read(r) ==
    /\ At(r, "update_listing", "read")
    /\ LET a == req[r].arg
           updated_listing == find_one(listings, [listing_id |-> a.listing_id])
       IN  Respond(r, "update_listing", a, IF updated_listing = None THEN 500 ELSE 200)
    /\ ReadOnly /\ UNCHANGED clock

(***************************************************************************)
(* Verification document routes.                                           *)
(***************************************************************************)
VerificationDocumentDoc(a, now) ==
    [document_id |-> a.document_id, user_firebase_uid |-> a.user_firebase_uid,
     document_type |-> a.document_type, status |-> "pending",
     verified_at |-> None, verified_by_admin_uid |-> None, rejection_reason |-> None,
     created_at |-> now]

VerificationDocumentCreate ==
    [document_id : DIDs, user_firebase_uid : UIDs, document_type : DocTypes]
VerifyParams ==
    [document_id : DIDs, admin_uid : {"admin"}, status : VerificationStatus,
     rejection_reason : Opt(Reasons)]

create_verification_document(r) ==
    /\ Arrive(r)
    /\ \E a \in VerificationDocumentCreate, now \in Nows :
         LET doc_dict == VerificationDocumentDoc(a, now)
         IN  /\ IF DuplicateKey(verification_documents, doc_dict, Unique_verification_documents)
                THEN /\ Respond(r, "create_verification_document", a, 500)
                     /\ UNCHANGED verification_documents
                ELSE /\ verification_documents' = Append(verification_documents, doc_dict)
                     /\ Respond(r, "create_verification_document", a, 200)
             /\ clock' = now
    /\ Only_verification_documents

get_verification_document(r) ==
    /\ Arrive(r)
    /\ \E did \in DIDs :
         LET doc == find_one(verification_documents, [document_id |-> did])
         IN  Respond(r, "get_verification_document", [document_id |-> did],
                     IF doc = None THEN 404 ELSE 200)
    /\ ReadOnly /\ UNCHANGED clock

\* update_data of verify_document; "if rejection_reason:" is false for None and "".
VerifyUpdateData(a, now) ==
    LET update_data ==
            [status |-> a.status, verified_by_admin_uid |-> Some(a.admin_uid),
             verified_at |-> Some(now)]
    IN  IF a.rejection_reason # None /\ a.rejection_reason[1] # ""
        THEN With(update_data, "rejection_reason", a.rejection_reason)
        ELSE update_data

\* "Update user verification status if identity proof is verified"
\* A variant that cascades for every document type.
CascadesAnyType(status, doc) == status = "verified"

Cascades(status, doc) ==
    status = "verified" /\ doc.document_type = "identity_proof"

verify_document_find(r) ==
    /\ Arrive(r)
    /\ \E a \in VerifyParams :
         LET doc == find_one(verification_documents,
                             [document_id |-> a.document_id])
         IN  IF doc = None
             THEN Respond(r, "verify_document", a, 404) /\ UNCHANGED clock
             ELSE \E now \in Nows :
                    /\ Goto(r, "verify_document", "set", a, <<doc[1], VerifyUpdateData(a, now)>>)
                    /\ clock' = now
    /\ ReadOnly

verify_document_set(r) ==
    /\ At(r, "verify_document", "set")
    /\ LET a == req[r].arg
           doc == req[r].loc[1]
       IN  /\ verification_documents' =
                  update_one(verification_documents,
                             [document_id |-> a.document_id],
                             Set(req[r].loc[2]))
           /\ IF Cascades(a.status, doc)
              THEN Goto(r, "verify_document", "user", a, Some(doc))
              ELSE Respond(r, "verify_document", a, 200)
    /\ Only_verification_documents /\ UNCHANGED clock

verify_document_user(r) ==
    /\ At(r, "verify_document", "user")
    /\ LET a == req[r].arg
           doc == req[r].loc[1]
       IN  /\ users' = update_one(users,
                                  [firebase_uid |-> doc.user_firebase_uid],
                                  Set([verification_status |-> "verified"]))
           /\ Respond(r, "verify_document", a, 200)
    /\ Only_users /\ UNCHANGED clock

(***************************************************************************)
(* Saved listing routes.                                                   *)
(***************************************************************************)
SavedListingDoc(a, now) ==
    [saved_id |-> a.saved_id, user_firebase_uid |-> a.user_firebase_uid,
     listing_id |-> a.listing_id, notes |-> a.notes, saved_at |-> now]

SavedListingCreate ==
    [saved_id : SIDs, user_firebase_uid : UIDs, listing_id : LIDs, notes : {None}]

\* save_listing, "Check if already saved": the filter of the pre-check.
\* A variant of the pre-check that looks the user up only.
SavedByUser(a) == [user_firebase_uid |-> a.user_firebase_uid]

SavedFilter(a) ==
    [user_firebase_uid |-> a.user_firebase_uid, listing_id |-> a.listing_id]

save_listing_find(r) ==
    /\ Arrive(r)
    /\ \E a \in SavedListingCreate :
         LET existing == find_one(saved_listings, SavedFilter(a))
         IN  IF existing # None
             THEN Respond(r, "save_listing", a, 400) /\ UNCHANGED clock
             ELSE \E now \in Nows :
                    /\ Goto(r, "save_listing", "insert", a, Some(SavedListingDoc(a, now)))
                    /\ clock' = now
    /\ ReadOnly

save_listing_insert(r) ==
    /\ At(r, "save_listing", "insert")
    /\ LET doc == req[r].loc[1]
       IN  IF DuplicateKey(saved_listings, doc, Unique_saved_listings)
           THEN Respond(r, "save_listing", req[r].arg, 500) /\ UNCHANGED saved_listings
           ELSE /\ saved_listings' = Append(saved_listings, doc)
                /\ Respond(r, "save_listing", req[r].arg, 200)
    /\ Only_saved_listings /\ UNCHANGED clock

remove_saved_listing(r) ==
    /\ Arrive(r)
    /\ \E sid \in SIDs :
         /\ saved_listings' = delete_one(saved_listings, [saved_id |-> sid])
         /\ Respond(r, "remove_saved_listing", [saved_id |-> sid],
                    IF deleted_count(saved_listings, [saved_id |-> sid]) = 0
                    THEN 404 ELSE 200)
    /\ Only_saved_listings /\ UNCHANGED clock

(***************************************************************************)
(* Property comparison routes.                                             *)
(***************************************************************************)
PropertyComparisonDoc(a, now) ==
    [comparison_id |-> a.comparison_id, user_firebase_uid |-> a.user_firebase_uid,
     property_ids |-> a.property_ids, created_at |-> now]

PropertyComparisonCreate ==
    [comparison_id : CIDs, user_firebase_uid : {"u1"}, property_ids : {<<"p1", "p2">>}]

create_comparison(r) ==
    /\ Arrive(r)
    /\ \E a \in PropertyComparisonCreate, now \in Nows :
         LET doc == PropertyComparisonDoc(a, now)
         IN  /\ IF DuplicateKey(property_comparisons, doc, Unique_property_comparisons)
                THEN /\ Respond(r, "create_comparison", a, 500)
                     /\ UNCHANGED property_comparisons
                ELSE /\ property_comparisons' = Append(property_comparisons, doc)
                     /\ Respond(r, "create_comparison", a, 200)
             /\ clock' = now
    /\ Only_property_comparisons

delete_comparison(r) ==
    /\ Arrive(r)
    /\ \E cid \in CIDs :
         /\ property_comparisons' =
                delete_one(property_comparisons, [comparison_id |-> cid])
         /\ Respond(r, "delete_comparison", [comparison_id |-> cid],
                    IF deleted_count(property_comparisons,
                                     [comparison_id |-> cid]) = 0
                    THEN 404 ELSE 200)
    /\ Only_property_comparisons /\ UNCHANGED clock

(***************************************************************************)
(* Review routes.  A rating is a float: the model counts it in tenths.     *)
(***************************************************************************)
RatingTenths == {0, 9, 10, 30, 50, 51, 60}

ReviewDoc(a, now) ==
    [review_id |-> a.review_id, reviewer_firebase_uid |-> a.reviewer_firebase_uid,
     target_type |-> a.target_type, target_id |-> a.target_id, rating |-> a.rating,
     created_at |-> now, updated_at |-> now]

ReviewCreate ==
    [review_id : RIDs, reviewer_firebase_uid : {"u1"}, target_type : {"property"},
     target_id : {"p1"}, rating : RatingTenths]

\* A variant that rejects the lower boundary.
RatingRejectedAtOne(rating) == rating <= 10 \/ rating > 50

\* create_review: review.rating < 1 or review.rating > 5
RatingRejected(rating) == rating < 10 \/ rating > 50

create_review(r) ==
    /\ Arrive(r)
    /\ \E a \in ReviewCreate :
         IF RatingRejected(a.rating)
         THEN /\ Respond(r, "create_review", a, 400)
              /\ UNCHANGED <<reviews, clock>>
         ELSE \E now \in Nows :
                LET doc == ReviewDoc(a, now)
                IN  /\ IF DuplicateKey(reviews, doc, Unique_reviews)
                       THEN Respond(r, "create_review", a, 500) /\ UNCHANGED reviews
                       ELSE /\ reviews' = Append(reviews, doc)
                            /\ Respond(r, "create_review", a, 200)
                    /\ clock' = now
    /\ Only_reviews

delete_review(r) ==
    /\ Arrive(r)
    /\ \E rid \in RIDs :
         /\ reviews' = delete_one(reviews, [review_id |-> rid])
         /\ Respond(r, "delete_review", [review_id |-> rid],
                    IF deleted_count(reviews, [review_id |-> rid]) = 0
                    THEN 404 ELSE 200)
    /\ Only_reviews /\ UNCHANGED clock

(***************************************************************************)
(* Message, notification and audit log routes.                             *)
(***************************************************************************)
MessageDoc(a, now) ==
    [message_id |-> a.message_id, sender_firebase_uid |-> a.sender_firebase_uid,
     receiver_firebase_uid |-> a.receiver_firebase_uid,
     status |-> "unread", sent_at |-> now, read_at |-> None]

\* The users that exchange messages.
Correspondents == {<<"u1", "u2">>, <<"u2", "u1">>, <<"u1", "u3">>}

MessageCreate ==
    {[message_id |-> mid, sender_firebase_uid |-> c[1], receiver_firebase_uid |-> c[2]] :
         mid \in MIDs, c \in Correspondents}

send_message(r) ==
    /\ Arrive(r)
    /\ \E a \in MessageCreate, now \in Nows :
         LET doc == MessageDoc(a, now)
         IN  /\ IF DuplicateKey(messages, doc, Unique_messages)
                THEN Respond(r, "send_message", a, 500) /\ UNCHANGED messages
                ELSE /\ messages' = Append(messages, doc)
                     /\ Respond(r, "send_message", a, 200)
             /\ clock' = now
    /\ Only_messages

\* The parameters of get_messages (a conversation_with that is given is not
\* empty: an empty one counts as absent).
Limits == 1 .. 2
MessagesParams ==
    [user_firebase_uid : {"u1", "u2"}, conversation_with : Opt({"u2", "u3"}),
     limit : Limits]

\* A variant of the query that ignores conversation_with.
MessageQueryOfUser(a) ==
    {[sender_firebase_uid |-> a.user_firebase_uid],
     [receiver_firebase_uid |-> a.user_firebase_uid]}

\* query: the alternatives of the $or.
MessageQuery(a) ==
    IF a.conversation_with # None
    THEN {[sender_firebase_uid |-> a.user_firebase_uid,
           receiver_firebase_uid |-> a.conversation_with[1]],
          [sender_firebase_uid |-> a.conversation_with[1],
           receiver_firebase_uid |-> a.user_firebase_uid]}
    ELSE {[sender_firebase_uid |-> a.user_firebase_uid],
          [receiver_firebase_uid |-> a.user_firebase_uid]}

\* find(query): the positions of the documents that match an alternative.
find(coll, query) ==
    {i \in DOMAIN coll : \E filter \in query : Matches(coll[i], filter)}

\* sort("sent_at", -1): the orders of the positions S by sent_at descending;
\* documents with equal sent_at come in any order.
SortedDescending(coll, S) ==
    {o \in [1 .. Cardinality(S) -> S] :
        /\ \A i, j \in DOMAIN o : i # j => o[i] # o[j]
        /\ \A i, j \in DOMAIN o : i < j => coll[o[i]].sent_at >= coll[o[j]].sent_at}

\* to_list(limit): the first limit documents in order o.
to_list(coll, o, limit) ==
    [i \in 1 .. (IF Len(o) < limit THEN Len(o) ELSE limit) |-> coll[o[i]]]

\* get_messages: loc holds the list returned.
get_messages(r) ==
    /\ Arrive(r)
    /\ \E a \in MessagesParams :
         \E o \in SortedDescending(messages, find(messages, MessageQuery(a))) :
            req' = [req EXCEPT ![r] =
                       [op |-> "get_messages", pc |-> "done", arg |-> a,
                        loc |-> to_list(messages, o, a.limit), status |-> 200]]
    /\ ReadOnly /\ UNCHANGED clock

\* {"$set": {"status": MessageStatus.READ, "read_at": now}}
MarkRead(now) == Set([status |-> "read", read_at |-> Some(now)])

mark_message_read(r) ==
    /\ Arrive(r)
    /\ \E mid \in MIDs, now \in Nows :
         /\ messages' = update_one(messages, [message_id |-> mid],
                                   MarkRead(now))
         /\ Respond(r, "mark_message_read", [message_id |-> mid],
                    IF modified_count(messages, [message_id |-> mid],
                                      MarkRead(now)) = 0
                    THEN 404 ELSE 200)
         /\ clock' = now
    /\ Only_messages

NotificationDoc(a, now) ==
    [notification_id |-> a.notification_id, user_firebase_uid |-> a.user_firebase_uid,
     is_read |-> FALSE, created_at |-> now]

NotificationCreate == [notification_id : NIDs, user_firebase_uid : Opt({"u1"})]

create_notification(r) ==
    /\ Arrive(r)
    /\ \E a \in NotificationCreate, now \in Nows :
         LET doc == NotificationDoc(a, now)
         IN  /\ IF DuplicateKey(notifications, doc, Unique_notifications)
                THEN Respond(r, "create_notification", a, 500) /\ UNCHANGED notifications
                ELSE /\ notifications' = Append(notifications, doc)
                     /\ Respond(r, "create_notification", a, 200)
             /\ clock' = now
    /\ Only_notifications

mark_notification_read(r) ==
    /\ Arrive(r)
    /\ \E nid \in NIDs :
         /\ notifications' = update_one(notifications, [notification_id |-> nid],
                                        Set([is_read |-> TRUE]))
         /\ Respond(r, "mark_notification_read", [notification_id |-> nid],
                    IF modified_count(notifications, [notification_id |-> nid],
                                      Set([is_read |-> TRUE])) = 0
                    THEN 404 ELSE 200)
    /\ Only_notifications /\ UNCHANGED clock

AuditLogDoc(a, now) ==
    [log_id |-> a.log_id, user_firebase_uid |-> a.user_firebase_uid,
     action |-> a.action, resource_type |-> a.resource_type, timestamp |-> now]

AuditLogCreate ==
    [log_id : AIDs, user_firebase_uid : {Some("u1")}, action : {"user_login"},
     resource_type : {None}]

create_audit_log(r) ==
    /\ Arrive(r)
    /\ \E a \in AuditLogCreate, now \in Nows :
         LET doc == AuditLogDoc(a, now)
         IN  /\ IF DuplicateKey(audit_logs, doc, Unique_audit_logs)
                THEN Respond(r, "create_audit_log", a, 500) /\ UNCHANGED audit_logs
                ELSE /\ audit_logs' = Append(audit_logs, doc)
                     /\ Respond(r, "create_audit_log", a, 200)
             /\ clock' = now
    /\ Only_audit_logs

(***************************************************************************)
(* The initial states.  The database outlives the server: at startup it    *)
(* is new, or it holds documents that earlier requests stored (each one a  *)
(* document its create handler builds, under the unique indexes).          *)
(***************************************************************************)
EmptyStore ==
    /\ users = <<>> /\ properties = <<>> /\ listings = <<>>
    /\ verification_documents = <<>> /\ saved_listings = <<>>
    /\ property_comparisons = <<>> /\ reviews = <<>> /\ messages = <<>>
    /\ notifications = <<>> /\ audit_logs = <<>>

SeedStore ==
    /\ users = <<UserDoc([firebase_uid |-> "u1", name |-> "Ann", role |-> "lister"], 0)>>
    /\ properties =
           <<PropertyDoc([property_id |-> "p1", title |-> "Flat", current_price |-> 1], 0)>>
    /\ listings =
           <<ListingDoc([listing_id |-> "l1", property_id |-> "p1",
                         lister_firebase_uid |-> "u1", expires_at |-> None], 0)>>
    /\ verification_documents =
           <<VerificationDocumentDoc([document_id |-> "d1", user_firebase_uid |-> "u1",
                                      document_type |-> "identity_proof"], 0)>>
    /\ saved_listings =
           <<SavedListingDoc([saved_id |-> "s1", user_firebase_uid |-> "u1",
                              listing_id |-> "l1", notes |-> None], 0)>>
    /\ property_comparisons = <<>>
    /\ reviews =
           <<ReviewDoc([review_id |-> "r1", reviewer_firebase_uid |-> "u1",
                        target_type |-> "property", target_id |-> "p1", rating |-> 30], 0)>>
    /\ messages =
           <<MessageDoc([message_id |-> "m1", sender_firebase_uid |-> "u1",
                         receiver_firebase_uid |-> "u2"], 0)>>
    /\ notifications = <<>>
    /\ audit_logs = <<>>

InitStore == EmptyStore \/ SeedStore

\* Every handler, MaxReqAll requests, a sequential or a concurrent client.
Init ==
    /\ InitStore
    /\ clock = 0
    /\ sequential \in BOOLEAN
    /\ req = [r \in 1 .. MaxReqAll |-> Idle]
    /\ seen = [q \in Slots |-> {}]

\* One part of the API, MaxReq requests.
InitSeq ==
    /\ InitStore
    /\ clock = 0
    /\ sequential = TRUE
    /\ req = [r \in 1 .. MaxReq |-> Idle]
    /\ seen = [q \in Slots |-> {}]

InitConc ==
    /\ InitStore
    /\ clock = 0
    /\ sequential = FALSE
    /\ req = [r \in 1 .. MaxReq |-> Idle]
    /\ seen = [q \in Slots |-> {}]

InitBoth ==
    /\ InitStore
    /\ clock = 0
    /\ sequential \in BOOLEAN
    /\ req = [r \in 1 .. MaxReq |-> Idle]
    /\ seen = [q \in Slots |-> {}]

(***************************************************************************)
(* Analytics.                                                              *)
(***************************************************************************)
\* get_analytics: five count_documents calls, one await each; loc holds the
\* counts read so far, and the response when the request is done.
get_analytics_users(r) ==
    /\ Arrive(r)
    /\ Goto(r, "get_analytics", "properties", NoArg, <<count_documents(users, <<>>)>>)
    /\ ReadOnly /\ UNCHANGED clock

get_analytics_properties(r) ==
    /\ At(r, "get_analytics", "properties")
    /\ Goto(r, "get_analytics", "listings", NoArg,
            Append(req[r].loc, count_documents(properties, <<>>)))
    /\ ReadOnly /\ UNCHANGED clock

get_analytics_listings(r) ==
    /\ At(r, "get_analytics", "listings")
    /\ Goto(r, "get_analytics", "active", NoArg,
            Append(req[r].loc, count_documents(listings, <<>>)))
    /\ ReadOnly /\ UNCHANGED clock

get_analytics_active(r) ==
    /\ At(r, "get_analytics", "active")
    /\ Goto(r, "get_analytics", "pending", NoArg,
            Append(req[r].loc, count_documents(listings, [status |-> "active"])))
    /\ ReadOnly /\ UNCHANGED clock

get_analytics_pending(r) ==
    /\ At(r, "get_analytics", "pending")
    /\ req' = [req EXCEPT ![r] =
                  [op |-> "get_analytics", pc |-> "done", arg |-> NoArg,
                   loc |-> Append(req[r].loc,
                                  count_documents(verification_documents,
                                                  [status |-> "pending"])),
                   status |-> 200]]
    /\ ReadOnly /\ UNCHANGED clock

\* Three requests of a concurrent client.
InitAnalytics ==
    /\ InitStore
    /\ clock = 0
    /\ sequential = FALSE
    /\ req = [r \in 1 .. (MaxReq + 1) |-> Idle]
    /\ seen = [q \in Slots |-> {}]

(***************************************************************************)
(* The specifications.  Spec has every handler; the others have the        *)
(* handlers of one part of the API, with more requests.                    *)
(***************************************************************************)
Next ==
    \E r \in Slots :
        \/ create_user_find(r) \/ create_user_insert(r) \/ get_user(r)
        \/ update_user_find(r) \/ update_user_set(r) \/ update_user_read(r)
        \/ suspend_user(r) \/ ban_user(r)
        \/ create_property_find(r) \/ create_property_insert(r) \/ get_property(r)
        \/ update_property_find(r) \/ update_property_push(r)
        \/ update_property_set(r) \/ update_property_read(r) \/ delete_property(r)
        \/ create_listing_find_property(r) \/ create_listing_find_user(r)
        \/ create_listing_insert(r) \/ get_listing_find(r) \/ get_listing_inc(r)
        \/ update_listing_find(r) \/ update_listing_set(r) \/ update_listing_read(r)
        \/ create_verification_document(r) \/ get_verification_document(r)
        \/ verify_document_find(r) \/ verify_document_set(r) \/ verify_document_user(r)
        \/ save_listing_find(r) \/ save_listing_insert(r) \/ remove_saved_listing(r)
        \/ create_comparison(r) \/ delete_comparison(r)
        \/ create_review(r) \/ delete_review(r)
        \/ send_message(r) \/ mark_message_read(r) \/ get_messages(r)
        \/ create_notification(r) \/ mark_notification_read(r)
        \/ create_audit_log(r)
        \/ get_analytics_users(r) \/ get_analytics_properties(r)
        \/ get_analytics_listings(r) \/ get_analytics_active(r)
        \/ get_analytics_pending(r)

Spec == Init /\ [][Next]_vars

\* The create handlers of the ten collections.
NextCreate ==
    \E r \in Slots :
        \/ create_user_find(r) \/ create_user_insert(r)
        \/ create_property_find(r) \/ create_property_insert(r)
        \/ create_listing_find_property(r) \/ create_listing_find_user(r)
        \/ create_listing_insert(r)
        \/ create_verification_document(r)
        \/ save_listing_find(r) \/ save_listing_insert(r)
        \/ create_comparison(r) \/ create_review(r) \/ send_message(r)
        \/ create_notification(r) \/ create_audit_log(r)

SpecCreate == InitBoth /\ [][NextCreate]_vars

NextProperty ==
    \E r \in Slots :
        \/ create_property_find(r) \/ create_property_insert(r)
        \/ update_property_find(r) \/ update_property_push(r)
        \/ update_property_set(r) \/ update_property_read(r) \/ delete_property(r)

SpecPropertySeq == InitSeq /\ [][NextProperty]_vars
SpecPropertyConc == InitConc /\ [][NextProperty]_vars

NextListing ==
    \E r \in Slots :
        \/ create_listing_find_property(r) \/ create_listing_find_user(r)
        \/ create_listing_insert(r) \/ get_listing_find(r) \/ get_listing_inc(r)
        \/ update_listing_find(r) \/ update_listing_set(r) \/ update_listing_read(r)

SpecListing == InitConc /\ [][NextListing]_vars

NextDocument ==
    \E r \in Slots :
        \/ create_user_find(r) \/ create_user_insert(r) \/ suspend_user(r)
        \/ create_verification_document(r)
        \/ verify_document_find(r) \/ verify_document_set(r) \/ verify_document_user(r)

SpecDocument == InitBoth /\ [][NextDocument]_vars

NextSaved ==
    \E r \in Slots :
        \/ save_listing_find(r) \/ save_listing_insert(r) \/ remove_saved_listing(r)

SpecSaved == InitBoth /\ [][NextSaved]_vars

NextUpdate ==
    \E r \in Slots :
        \/ update_user_find(r) \/ update_user_set(r) \/ update_user_read(r)
        \/ update_property_find(r) \/ update_property_push(r)
        \/ update_property_set(r) \/ update_property_read(r)
        \/ update_listing_find(r) \/ update_listing_set(r) \/ update_listing_read(r)

SpecUpdate == InitBoth /\ [][NextUpdate]_vars

NextMessage ==
    \E r \in Slots : send_message(r) \/ mark_message_read(r) \/ get_messages(r)

SpecMessage == InitBoth /\ [][NextMessage]_vars

NextFlag ==
    \E r \in Slots :
        \/ create_notification(r) \/ mark_notification_read(r)
        \/ suspend_user(r) \/ ban_user(r)

SpecFlag == InitBoth /\ [][NextFlag]_vars

NextAnalytics ==
    \E r \in Slots :
        \/ get_analytics_users(r) \/ get_analytics_properties(r)
        \/ get_analytics_listings(r) \/ get_analytics_active(r)
        \/ get_analytics_pending(r)
        \/ create_user_find(r) \/ create_user_insert(r) \/ delete_property(r)

SpecAnalytics == InitAnalytics /\ [][NextAnalytics]_vars

NextStatus ==
    \E r \in Slots :
        \/ create_user_find(r) \/ create_user_insert(r)
        \/ update_user_find(r) \/ update_user_set(r) \/ update_user_read(r)
        \/ suspend_user(r) \/ ban_user(r)
        \/ create_verification_document(r)
        \/ verify_document_find(r) \/ verify_document_set(r) \/ verify_document_user(r)

SpecStatus == InitBoth /\ [][NextStatus]_vars

NextIntegrity ==
    \E r \in Slots :
        \/ create_user_find(r) \/ create_user_insert(r)
        \/ create_property_find(r) \/ create_property_insert(r) \/ delete_property(r)
        \/ create_listing_find_property(r) \/ create_listing_find_user(r)
        \/ create_listing_insert(r)

SpecIntegrity == InitBoth /\ [][NextIntegrity]_vars

NextReview ==
    \E r \in Slots : create_review(r) \/ delete_review(r)

SpecReview == InitBoth /\ [][NextReview]_vars

(***************************************************************************)
(* Properties of the handlers.                                             *)
(***************************************************************************)
Done(r) == req[r].pc = "done"
Quiet == \A q \in Reqs : ~InFlight(q)

\* Request r takes a step / takes its first step as handler op.
Steps(r) == req'[r] # req[r]
Arrives(r, op) == req[r].pc = "idle" /\ req'[r].op = op

CreateOps ==
    {"create_user", "create_property", "create_listing", "create_verification_document",
     "save_listing", "create_comparison", "create_review", "send_message",
     "create_notification", "create_audit_log"}

\* The unique identifying key of the entity a create request carries.
KeyField(op) ==
    CASE op = "create_user" -> "firebase_uid"
      [] op = "create_property" -> "property_id"
      [] op = "create_listing" -> "listing_id"
      [] op = "create_verification_document" -> "document_id"
      [] op = "save_listing" -> "saved_id"
      [] op = "create_comparison" -> "comparison_id"
      [] op = "create_review" -> "review_id"
      [] op = "send_message" -> "message_id"
      [] op = "create_notification" -> "notification_id"
      [] op = "create_audit_log" -> "log_id"

CollectionOf(op) ==
    CASE op = "create_user" -> users
      [] op = "create_property" -> properties
      [] op = "create_listing" -> listings
      [] op = "create_verification_document" -> verification_documents
      [] op = "save_listing" -> saved_listings
      [] op = "create_comparison" -> property_comparisons
      [] op = "create_review" -> reviews
      [] op = "send_message" -> messages
      [] op = "create_notification" -> notifications
      [] op = "create_audit_log" -> audit_logs

SameKey(q1, q2) ==
    /\ q1.op = q2.op /\ q1.op \in CreateOps
    /\ q1.arg[KeyField(q1.op)] = q2.arg[KeyField(q2.op)]

\* C1: for every entity with a unique identifying key, of two sequential
\* create requests with the same key the first succeeds and the second is
\* rejected with Conflict (400), the store holding exactly the first entity.
\* (create_review's own 400 for a rating out of range is left aside.)
C1_SecondCreateIsConflict ==
    sequential =>
        \A r1, r2 \in Reqs :
            (/\ r1 < r2 /\ Done(r1) /\ Done(r2)
             /\ SameKey(req[r1], req[r2])
             /\ req[r1].status = 200)
            => /\ req[r2].status = 400
               /\ count_documents(CollectionOf(req[r1].op),
                      [k \in {KeyField(req[r1].op)} |-> req[r1].arg[k]]) = 1

\* The key two racing create requests collide on.
RaceKey(q) ==
    CASE q.op = "create_user" -> <<q.arg.firebase_uid>>
      [] q.op = "create_property" -> <<q.arg.property_id>>
      [] q.op = "save_listing" -> <<q.arg.user_firebase_uid, q.arg.listing_id>>

\* C2: two concurrent create requests for the same unique key (firebase_uid,
\* property_id, or the (user, listing) pair of a saved listing) end with
\* success or Conflict, never with an unhandled server error, and the store
\* never holds two documents with the same key.
C2_ConcurrentCreateIsConflict ==
    /\ \A r1, r2 \in Reqs :
           (/\ r1 # r2 /\ Done(r1) /\ Done(r2)
            /\ req[r1].op = req[r2].op
            /\ req[r1].op \in {"create_user", "create_property", "save_listing"}
            /\ RaceKey(req[r1]) = RaceKey(req[r2]))
           => req[r1].status \in {200, 400} /\ req[r2].status \in {200, 400}
    /\ \A i, j \in DOMAIN users :
           users[i].firebase_uid = users[j].firebase_uid => i = j
    /\ \A i, j \in DOMAIN properties :
           properties[i].property_id = properties[j].property_id => i = j
    /\ \A i, j \in DOMAIN saved_listings :
           (/\ saved_listings[i].user_firebase_uid = saved_listings[j].user_firebase_uid
            /\ saved_listings[i].listing_id = saved_listings[j].listing_id) => i = j

\* The prices of a price_history, and its reasons.
PricesOf(h) == [i \in DOMAIN h |-> h[i].price]

\* The last request up to k that created or deleted property pid, 0 if none.
LastCreation(pid, k) ==
    LET S == {c \in 1 .. k :
                 /\ req[c].op \in {"create_property", "delete_property"}
                 /\ req[c].status = 200
                 /\ req[c].arg.property_id = pid}
    IN  IF S = {} THEN 0 ELSE CHOOSE c \in S : \A x \in S : x <= c

\* The prices applied to pid by the successful update_property requests
\* c+1 .. k in turn, each counted when its current_price differs from the
\* price applied last; h is the history before them.
RECURSIVE AppliedPrices(_, _, _, _)
AppliedPrices(pid, h, c, k) ==
    IF k <= c THEN h
    ELSE LET before == AppliedPrices(pid, h, c, k - 1)
             q == req[k]
         IN  IF /\ q.op = "update_property" /\ q.status = 200
                /\ q.arg.property_id = pid
                /\ q.arg.update.current_price # None
                /\ q.arg.update.current_price[1] # before[Len(before)]
             THEN Append(before, q.arg.update.current_price[1])
             ELSE before

\* C3: after sequential requests, a stored property's price_history is the
\* creation price (reason "Initial listing") followed by the prices of the
\* N update_property requests that supplied a current_price different from
\* the stored one, in the order applied: N+1 entries, and the last entry's
\* price is current_price.
C3_SequentialPriceHistory ==
    (sequential /\ Quiet) =>
        \A i \in DOMAIN properties :
            LET d == properties[i]
                n == Len(req)
                c == LastCreation(d.property_id, n)
                p0 == IF c = 0 THEN d.price_history[1].price
                      ELSE req[c].arg.current_price
                applied == AppliedPrices(d.property_id, <<p0>>, c, n)
            IN  /\ PricesOf(d.price_history) = applied
                /\ d.price_history[1].reason = "Initial listing"
                /\ \A j \in 2 .. Len(d.price_history) :
                       d.price_history[j].reason = "Price updated"
                /\ d.price_history[Len(d.price_history)].price = d.current_price

C3_Witness ==
    /\ sequential /\ Quiet
    /\ \E i \in DOMAIN properties :
           /\ Len(properties[i].price_history) = 3
           /\ \A r \in Reqs :
                  /\ req[r].op = "update_property" /\ req[r].status = 200
                  /\ req[r].arg.property_id = properties[i].property_id

\* C4: under concurrent update_property requests, once all requests have
\* completed the last price_history entry's price is current_price, and
\* every entry after the first stands for one change of current_price (no
\* two adjacent entries repeat a price).
C4_ConcurrentPriceHistory ==
    Quiet =>
        \A i \in DOMAIN properties :
            LET h == properties[i].price_history
            IN  /\ h[Len(h)].price = properties[i].current_price
                /\ \A j \in 1 .. (Len(h) - 1) : h[j].price # h[j + 1].price

\* The number of get_listing requests for lid that succeeded.
SuccessfulViews(lid) ==
    Cardinality({r \in Reqs : /\ req[r].op = "get_listing" /\ req[r].status = 200
                              /\ req[r].arg.listing_id = lid})

\* C5: a stored listing's views_count is the number of get_listing requests
\* for it that succeeded, however they interleave with each other and with
\* update_listing; a get_listing that ended with Not-Found counts nothing,
\* and (a request that has succeeded stays so) the count never goes down.
C5_ViewsCount ==
    \A i \in DOMAIN listings :
        listings[i].views_count = SuccessfulViews(listings[i].listing_id)

C5_Witness ==
    \E i \in DOMAIN listings :
        /\ listings[i].views_count = 1
        /\ listings[i].status = "active"
        /\ Quiet

\* The stored verification document and user with an id.
DocumentOf(did) ==
    verification_documents[FirstIdx(verification_documents, [document_id |-> did])]
HasUser(uid) == FirstIdx(users, [firebase_uid |-> uid]) # 0
UserOf(uid) == users[FirstIdx(users, [firebase_uid |-> uid])]

\* A completed verify_document request that verified an identity proof.
VerifiedIdentity(r) ==
    /\ req[r].op = "verify_document" /\ req[r].status = 200
    /\ req[r].arg.status = "verified"
    /\ DocumentOf(req[r].arg.document_id).document_type = "identity_proof"

\* C6, the cascade: after a verify_document with status verified on a stored
\* identity_proof document, its owner U, when U exists, has
\* verification_status verified (requests in sequence; a U created by a
\* later request is new).
C6_OwnerVerified ==
    sequential =>
        \A r \in Reqs :
            VerifiedIdentity(r) =>
                LET uid == DocumentOf(req[r].arg.document_id).user_firebase_uid
                IN  HasUser(uid) =>
                        \/ UserOf(uid).verification_status = "verified"
                        \/ \E q \in Reqs : /\ q > r /\ req[q].op = "create_user"
                                           /\ req[q].status = 200
                                           /\ req[q].arg.firebase_uid = uid

\* C6, the frame: a step of a verify_document request on a document of
\* another type, or with a status other than verified, changes no user.
C6_OthersLeaveUsers ==
    \A r \in Reqs :
        (Steps(r) /\ req'[r].op = "verify_document")
        => \/ users' = users
           \/ /\ req'[r].status # 404
              /\ req'[r].arg.status = "verified"
              /\ DocumentOf(req'[r].arg.document_id).document_type = "identity_proof"

\* C6: verify_document cascades to the owner exactly for a verified
\* identity_proof document.
C6_VerifyCascade == [][C6_OwnerVerified' /\ C6_OthersLeaveUsers]_vars

C6_Witness ==
    /\ sequential
    /\ \E r \in Reqs :
           /\ VerifiedIdentity(r)
           /\ HasUser(DocumentOf(req[r].arg.document_id).user_firebase_uid)
           /\ UserOf(DocumentOf(req[r].arg.document_id).user_firebase_uid)
                  .verification_status = "verified"

\* The saved listings with the pair / the saved_id of a save_listing payload.
PairSaved(a) ==
    \E i \in DOMAIN saved_listings :
        /\ saved_listings[i].user_firebase_uid = a.user_firebase_uid
        /\ saved_listings[i].listing_id = a.listing_id
SavedIdStored(a) == FirstIdx(saved_listings, [saved_id |-> a.saved_id]) # 0

UniquePairs ==
    \A i, j \in DOMAIN saved_listings :
        (/\ saved_listings[i].user_firebase_uid = saved_listings[j].user_firebase_uid
            /\ saved_listings[i].listing_id = saved_listings[j].listing_id) => i = j

C7_PreCheck ==
    \A r \in Reqs :
        Arrives(r, "save_listing") =>
            /\ store' = store
            /\ IF PairSaved(req'[r].arg)
               THEN req'[r].status = 400
               ELSE req'[r].pc = "insert"

\* The insert of a sequential save_listing request that passed the
\* pre-check: with a saved_id that is not stored it succeeds and stores the
\* saved listing; with a stored saved_id it stores nothing and ends with 500.
C7_Insert ==
    \A r \in Reqs :
        (sequential /\ At(r, "save_listing", "insert") /\ Steps(r)) =>
            IF SavedIdStored(req[r].arg)
            THEN req'[r].status = 500 /\ store' = store
            ELSE /\ req'[r].status = 200
                 /\ saved_listings' =
                        Append(saved_listings, SavedListingDoc(req[r].arg, req[r].loc[1].saved_at))

LookupOps ==
    {"get_user", "update_user", "suspend_user", "ban_user",
     "get_property", "update_property", "delete_property",
     "get_listing", "update_listing",
     "get_verification_document", "verify_document",
     "remove_saved_listing", "delete_comparison", "delete_review",
     "mark_message_read", "mark_notification_read"}

LookupKey(op) ==
    CASE op \in {"get_user", "update_user", "suspend_user", "ban_user"} -> "firebase_uid"
      [] op \in {"get_property", "update_property", "delete_property"} -> "property_id"
      [] op \in {"get_listing", "update_listing"} -> "listing_id"
      [] op \in {"get_verification_document", "verify_document"} -> "document_id"
      [] op = "remove_saved_listing" -> "saved_id"
      [] op = "delete_comparison" -> "comparison_id"
      [] op = "delete_review" -> "review_id"
      [] op = "mark_message_read" -> "message_id"
      [] op = "mark_notification_read" -> "notification_id"

LookupCollection(op) ==
    CASE op \in {"get_user", "update_user", "suspend_user", "ban_user"} -> users
      [] op \in {"get_property", "update_property", "delete_property"} -> properties
      [] op \in {"get_listing", "update_listing"} -> listings
      [] op \in {"get_verification_document", "verify_document"} -> verification_documents
      [] op = "remove_saved_listing" -> saved_listings
      [] op = "delete_comparison" -> property_comparisons
      [] op = "delete_review" -> reviews
      [] op = "mark_message_read" -> messages
      [] op = "mark_notification_read" -> notifications

\* The id of request q is not the id of any document of its collection.
IdMissing(q) ==
    \A i \in DOMAIN LookupCollection(q.op) :
        LookupCollection(q.op)[i][LookupKey(q.op)] # q.arg[LookupKey(q.op)]

\* C8: each of the sixteen single-entity read, update, delete and
\* status-flip operations, called with an id that is not in the store, ends
\* at once with 404 and leaves every collection as it was.
C8_MissingIdIsNotFound ==
    [][\A r \in Reqs :
           (req[r].pc = "idle" /\ req'[r].op \in LookupOps /\ IdMissing(req'[r]))
           => /\ req'[r].pc = "done"
              /\ req'[r].status = 404
              /\ store' = store]_vars

C8_Witness ==
    \E r \in Reqs :
        /\ req[r].op \in {"delete_property", "suspend_user", "mark_message_read",
                          "verify_document", "update_listing"}
        /\ Done(r) /\ req[r].status = 404
        /\ IdMissing(req[r])

ReviewStored(a) == FirstIdx(reviews, [review_id |-> a.review_id]) # 0

HasProperty(pid) == FirstIdx(properties, [property_id |-> pid]) # 0
ListingStored(lid) == FirstIdx(listings, [listing_id |-> lid]) # 0

C10_FindProperty ==
    \A r \in Reqs :
        Arrives(r, "create_listing") =>
            /\ store' = store
            /\ IF HasProperty(req'[r].arg.property_id)
               THEN req'[r].pc = "find_user"
               ELSE req'[r].pc = "done" /\ req'[r].status = 404

\* The second lookup: 404 and nothing stored when the lister is missing.
C10_FindUser ==
    \A r \in Reqs :
        (At(r, "create_listing", "find_user") /\ Steps(r)) =>
            /\ store' = store
            /\ IF HasUser(req[r].arg.lister_firebase_uid)
               THEN req'[r].pc = "insert"
               ELSE req'[r].pc = "done" /\ req'[r].status = 404

\* The insert: the stored listing is pending, has no views and no
\* verified_at; a stored listing_id stores nothing and ends with 500.
C10_Insert ==
    \A r \in Reqs :
        (At(r, "create_listing", "insert") /\ Steps(r)) =>
            /\ req'[r].pc = "done"
            /\ IF ListingStored(req[r].arg.listing_id)
               THEN req'[r].status = 500 /\ store' = store
               ELSE /\ req'[r].status = 200
                    /\ Len(listings') = Len(listings) + 1
                    /\ LET l == listings'[Len(listings')]
                       IN  /\ l.listing_id = req[r].arg.listing_id
                           /\ l.property_id = req[r].arg.property_id
                           /\ l.lister_firebase_uid = req[r].arg.lister_firebase_uid
                           /\ l.status = "pending"
                           /\ l.views_count = 0
                           /\ l.verified_at = None
                    /\ \A i \in DOMAIN listings : listings'[i] = listings[i]

UpdateOps == {"update_user", "update_property", "update_listing"}
SuppliedFields(u) == {k \in DOMAIN u : u[k] # None}
Cascaded == {"updated_at", "price_history", "verified_at"}

\* The value stored for a supplied field (Optional in the stored document
\* for rejection_reason and expires_at).
SuppliedValue(u, k) ==
    IF k \in {"rejection_reason", "expires_at"} THEN u[k] ELSE u[k][1]

\* The collections other than the one of op are left alone by the step.
OthersUnchanged(op) ==
    /\ op = "update_user" \/ users' = users
    /\ op = "update_property" \/ properties' = properties
    /\ op = "update_listing" \/ listings' = listings
    /\ UNCHANGED <<verification_documents, saved_listings, property_comparisons,
                   reviews, messages, notifications, audit_logs>>

\* The collection of an update operation after the step.
UpdatedCollection(op) ==
    CASE op = "update_user" -> users'
      [] op = "update_property" -> properties'
      [] op = "update_listing" -> listings'

\* C11: every step of an update_user, update_property or update_listing
\* request leaves every other document of the store as it was, and in the
\* target leaves every field that the payload omits (other than updated_at,
\* price_history and verified_at) at its previous value; the $set step
\* stores the value of every supplied field.
C11_OnlySuppliedFields ==
    [][\A r \in Reqs :
           (Steps(r) /\ req'[r].op \in UpdateOps) =>
               LET q == req'[r]
                   coll == LookupCollection(q.op)
                   after == UpdatedCollection(q.op)
                   key == LookupKey(q.op)
               IN  /\ OthersUnchanged(q.op)
                   /\ Len(after) = Len(coll)
                   /\ \A i \in DOMAIN coll :
                          IF coll[i][key] # q.arg[key]
                          THEN after[i] = coll[i]
                          ELSE /\ DOMAIN after[i] = DOMAIN coll[i]
                               /\ \A k \in DOMAIN coll[i] \ Cascaded :
                                      IF k \in SuppliedFields(q.arg.update)
                                      THEN req[r].pc = "set" =>
                                               after[i][k] = SuppliedValue(q.arg.update, k)
                                      ELSE after[i][k] = coll[i][k]]_vars

C11_Witness ==
    \E r1, r2 \in Reqs :
        /\ req[r1].op = "update_user" /\ req[r1].status = 200
        /\ SuppliedFields(req[r1].arg.update) = {"two_factor_enabled"}
        /\ req[r1].arg.update.two_factor_enabled = Some(TRUE)
        /\ req[r2].op = "update_listing" /\ req[r2].status = 200
        /\ SuppliedFields(req[r2].arg.update) = {"rejection_reason"}
        /\ \E i \in DOMAIN users :
               /\ users[i].firebase_uid = req[r1].arg.firebase_uid
               /\ users[i].two_factor_enabled /\ users[i].name = "Ann"
        /\ \E i \in DOMAIN listings :
               /\ listings[i].listing_id = req[r2].arg.listing_id
               /\ listings[i].rejection_reason # None
               /\ listings[i].status = "pending"

\* C12: a message's read_at is absent while its status is unread, and once
\* the status is read no step (in particular no later mark_message_read)
\* changes read_at or status.
C12_ReadAtSetOnce ==
    [][\A i \in DOMAIN messages :
           /\ messages[i].status = "unread" => messages[i].read_at = None
           /\ messages[i].status = "read" =>
                  /\ messages'[i].status = "read"
                  /\ messages'[i].read_at = messages[i].read_at]_vars

\* C13: in every reachable state each listing's verified_at and
\* verified_by_admin_uid are both set or both absent.
C13_VerifiedFieldsTogether ==
    \A i \in DOMAIN listings :
        (listings[i].verified_at = None) <=> (listings[i].verified_by_admin_uid = None)

\* The boolean flips, and the flag each one leaves stored.
FlipOps == {"mark_notification_read", "suspend_user", "ban_user"}

\* C14: a mark_notification_read, suspend_user or ban_user call on a target
\* that exists succeeds, the first time and every time it is repeated with
\* the same flag value, and leaves the stored state of a single call; it
\* ends with Not-Found only when the target is absent.
C14_FlipsAreIdempotent ==
    [][\A r \in Reqs :
           (req[r].pc = "idle" /\ req'[r].op \in FlipOps) =>
               IF IdMissing(req'[r])
               THEN req'[r].status = 404 /\ store' = store
               ELSE /\ req'[r].status = 200
                    /\ (\E q \in Reqs :
                            /\ req[q].pc = "done" /\ req[q].status = 200
                            /\ req[q].op = req'[r].op /\ req[q].arg = req'[r].arg
                            /\ sequential /\ q = r - 1)
                       => store' = store]_vars

\* C15: the five values a get_analytics call returns are the counts of one
\* state of the store that existed during the call; in particular
\* active_listings does not exceed total_listings.
C15_PointInTimeCounts ==
    \A r \in Reqs :
        (req[r].op = "get_analytics" /\ Done(r)) =>
            /\ req[r].loc \in seen[r]
            /\ req[r].loc[4] <= req[r].loc[3]

\* The operations that change fields of a user, property or listing.
TimestampOps ==
    {"update_user", "update_property", "update_listing", "suspend_user", "ban_user",
     "verify_document"}

\* Every document of the collection that the step changed carries the time
\* of the step as updated_at.
Refreshed(before, after) ==
    \A i \in DOMAIN before :
        (i \in DOMAIN after /\ after[i] # before[i]) => after[i].updated_at = clock'

\* C16: for requests in sequence, a step of update_user, update_property,
\* update_listing, suspend_user, ban_user or verify_document that changes a
\* field of a user, property or listing leaves that document's updated_at at
\* the time of the operation (update_property is looked at when its $set
\* follows the $push of price_history).
C16_UpdatedAtFollowsChange ==
    [][\A r \in Reqs :
           (sequential /\ Steps(r) /\ req'[r].op \in TimestampOps /\ req[r].pc # "push")
           => /\ Refreshed(users, users')
              /\ Refreshed(properties, properties')
              /\ Refreshed(listings, listings')]_vars

\* The stored message is one of the thread the parameters a ask for.
InThread(m, a) ==
    IF a.conversation_with = None
    THEN a.user_firebase_uid \in {m.sender_firebase_uid, m.receiver_firebase_uid}
    ELSE \/ /\ m.sender_firebase_uid = a.user_firebase_uid
            /\ m.receiver_firebase_uid = a.conversation_with[1]
         \/ /\ m.sender_firebase_uid = a.conversation_with[1]
            /\ m.receiver_firebase_uid = a.user_firebase_uid

Thread(a) == {i \in DOMAIN messages : InThread(messages[i], a)}

\* C17: get_messages returns stored messages of the thread asked for only
\* (with conversation_with=B the messages between A and B, none between A
\* and a third user; without it the messages A sent or received), each
\* once, all of them up to the limit, newest first, the ones left out by
\* the limit being no newer than the ones returned; it changes nothing.
C17_MessageThread ==
    [][\A r \in Reqs :
           Arrives(r, "get_messages") =>
               LET a == req'[r].arg
                   res == req'[r].loc
               IN  /\ req'[r].pc = "done" /\ req'[r].status = 200
                   /\ store' = store
                   /\ \A k \in DOMAIN res :
                          \E i \in Thread(a) : messages[i] = res[k]
                   /\ \A k, l \in DOMAIN res : k # l => res[k].message_id # res[l].message_id
                   /\ Len(res) = IF Cardinality(Thread(a)) < a.limit
                                 THEN Cardinality(Thread(a)) ELSE a.limit
                   /\ \A k, l \in DOMAIN res : k < l => res[k].sent_at >= res[l].sent_at
                   /\ \A i \in Thread(a) :
                          (\A k \in DOMAIN res : res[k] # messages[i])
                          => \A k \in DOMAIN res : res[k].sent_at >= messages[i].sent_at]_vars

C17_Witness ==
    \E r \in Reqs :
        /\ req[r].op = "get_messages" /\ Done(r)
        /\ req[r].arg.user_firebase_uid = "u1"
        /\ req[r].arg.conversation_with = Some("u2")
        /\ req[r].arg.limit = 2
        /\ Len(req[r].loc) = 1
        /\ \E i \in DOMAIN messages :
               /\ messages[i].sender_firebase_uid = "u1"
               /\ messages[i].receiver_firebase_uid = "u3"

\* Every user's verification_status is not_submitted or verified.
StatusRange ==
    \A i \in DOMAIN users : users[i].verification_status \in {"not_submitted", "verified"}

\* A step changes a user's verification_status only as the cascade step of
\* a verify_document request, and only to verified; users stay stored and a
\* verified user stays verified.
StatusStep ==
    /\ Len(users') >= Len(users)
    /\ \A i \in DOMAIN users :
           /\ users'[i].firebase_uid = users[i].firebase_uid
           /\ users[i].verification_status = "verified" =>
                  users'[i].verification_status = "verified"
           /\ users'[i].verification_status # users[i].verification_status =>
                  /\ users'[i].verification_status = "verified"
                  /\ \E r \in Reqs : At(r, "verify_document", "user") /\ Steps(r)

\* C18: a user's verification_status is changed by the verify_document
\* cascade only, which sets it to verified: in every reachable state it is
\* not_submitted or verified, and a verified user stays verified, also when
\* a document of the user is later verified with status rejected or pending.
C18_StatusOneWay == [][StatusRange' /\ StatusStep]_vars

C18_Witness ==
    /\ sequential
    /\ \E r1, r2 \in Reqs :
           /\ r1 < r2
           /\ VerifiedIdentity(r1)
           /\ req[r2].op = "verify_document" /\ req[r2].status = 200
           /\ req[r2].arg.status = "rejected"
           /\ req[r2].arg.document_id = req[r1].arg.document_id
           /\ HasUser(DocumentOf(req[r1].arg.document_id).user_firebase_uid)
           /\ UserOf(DocumentOf(req[r1].arg.document_id).user_firebase_uid)
                  .verification_status = "verified"

\* C19: in every reachable state every stored listing's property_id is the
\* id of a stored property and its lister_firebase_uid is the firebase_uid
\* of a stored user.
C19_ListingReferences ==
    \A i \in DOMAIN listings :
        /\ HasProperty(listings[i].property_id)
        /\ HasUser(listings[i].lister_firebase_uid)

\* C20: an update_property request that ran concurrently with a
\* delete_property request for the same property_id has ended with success
\* or Not-Found, never with a server error; and once both are done, the
\* delete having succeeded (and no request having created the property
\* anew), no document with that property_id is stored.
C20_UpdateRacesDelete ==
    \A r1, r2 \in Reqs :
        (/\ ~sequential
         /\ req[r1].op = "update_property" /\ Done(r1)
         /\ req[r2].op = "delete_property" /\ Done(r2)
         /\ req[r1].arg.property_id = req[r2].arg.property_id)
        => /\ req[r1].status \in {200, 404}
           /\ (/\ req[r2].status = 200
               /\ \A q \in Reqs : req[q].op # "create_property")
              => ~HasProperty(req[r2].arg.property_id)

====
